---- MODULE Spec2Model ----
(***************************************************************************)
(* FlareProx (src/flareprox.py): the provider manager, the endpoint        *)
(* orchestrator with its JSON cache file, the command line entry point and *)
(* the deployed worker script's request handling.                          *)
(*                                                                         *)
(* Strings are sequences of characters (or of longer literal pieces where  *)
(* no code inspects the inside).  Every method is one action; the network  *)
(* and file system outcomes its code distinguishes are its inputs.         *)
(***************************************************************************)
EXTENDS Integers, Sequences, FiniteSets, TLC

VARIABLES
    configFiles,   \* the candidate config files on disk: path -> content kind
    cloudflare,    \* FlareProx.cloudflare: "None" or "Manager"
    subdomain,     \* CloudflareManager._account_subdomain (<<>> is None)
    scripts,       \* the provider's script listing, in listing order
    cacheFile,     \* flareprox_endpoints.json: [exists, data]
    last,          \* the call that has just returned: its inputs, trace, result
    prev,          \* summary of the call that returned before it
    request,       \* worker script: the request being handled
    response       \* worker script: what handleRequest answered

vars == <<configFiles, cloudflare, subdomain, scripts, cacheFile, last, prev,
          request, response>>

----------------------------------------------------------------------------
(* Bounds                                                                  *)

\* most scripts the provider account holds
MaxScripts == 2
\* largest --count given to create_proxies
MaxCount == 2

----------------------------------------------------------------------------
(* Strings                                                                 *)

StartsWith(s, p) ==
    /\ Len(s) >= Len(p)
    /\ \A i \in 1..Len(p) : s[i] = p[i]

\* the literal "flareprox-" of _generate_worker_name and list_deployments
PREFIX == <<"f", "l", "a", "r", "e", "p", "r", "o", "x", "-">>

\* names _generate_worker_name can produce: flareprox-<timestamp>-<random>
GeneratedNames == { PREFIX \o <<"1", "-", "a">>, PREFIX \o <<"2", "-", "b">> }

\* identifiers of other scripts in the same account
ForeignIds ==
    { <<"f", "l", "a", "r", "e", "p", "r", "o", "x">>,
      <<"m", "y", "-">> \o PREFIX \o <<"a">> }

ScriptIds == GeneratedNames \cup ForeignIds

\* the account's configured workers.dev subdomain, and account_id.lower()
ConfiguredSubdomain == <<"mysub">>
AccountIdLower == <<"acc1">>

WorkerUrl(name, sub) ==
    <<"https://">> \o name \o <<".">> \o sub \o <<".workers.dev">>

Range(s) == { s[i] : i \in 1..Len(s) }

----------------------------------------------------------------------------
(* json.dump / json.load of the endpoint cache, as a token stream          *)

P(c) == <<"P", c>>
S(s) == <<"S">> \o s

IsStr(tok) == Len(tok) >= 1 /\ tok[1] = "S"
StrOf(tok) == SubSeq(tok, 2, Len(tok))

KeyName == <<"name">>
KeyUrl == <<"url">>
KeyCreatedAt == <<"created_at">>

\* a faulty variant: the name is written where the url belongs
DumpRecord_NameAsUrl(r) ==
    << P("{"), S(KeyName), P(":"), S(r.name), P(","),
       S(KeyUrl), P(":"), S(r.name), P(","),
       S(KeyCreatedAt), P(":"), S(r.created_at), P("}") >>

DumpRecord(r) ==
    << P("{"), S(KeyName), P(":"), S(r.name), P(","),
       S(KeyUrl), P(":"), S(r.url), P(","),
       S(KeyCreatedAt), P(":"), S(r.created_at), P("}") >>

RECURSIVE DumpItems(_)
DumpItems(l) ==
    IF Len(l) = 0 THEN <<>>
    ELSE IF Len(l) = 1 THEN DumpRecord(l[1])
    ELSE DumpRecord(l[1]) \o <<P(",")>> \o DumpItems(Tail(l))

JsonDump(l) == <<P("[")>> \o DumpItems(l) \o <<P("]")>>

RecordLen ==
    Len(DumpRecord([name |-> <<>>, url |-> <<>>, created_at |-> <<>>]))

\* one object at toks[i..i+12]: [ok, val]
ParseRecord(toks, i) ==
    IF /\ i + RecordLen - 1 <= Len(toks)
       /\ toks[i] = P("{")
       /\ toks[i + 1] = S(KeyName) /\ toks[i + 2] = P(":") /\ IsStr(toks[i + 3])
       /\ toks[i + 4] = P(",")
       /\ toks[i + 5] = S(KeyUrl) /\ toks[i + 6] = P(":") /\ IsStr(toks[i + 7])
       /\ toks[i + 8] = P(",")
       /\ toks[i + 9] = S(KeyCreatedAt) /\ toks[i + 10] = P(":")
       /\ IsStr(toks[i + 11])
       /\ toks[i + 12] = P("}")
    THEN [ok |-> TRUE,
          val |-> [name |-> StrOf(toks[i + 3]), url |-> StrOf(toks[i + 7]),
                   created_at |-> StrOf(toks[i + 11])]]
    ELSE [ok |-> FALSE, val |-> [name |-> <<>>, url |-> <<>>, created_at |-> <<>>]]

\* the items after "[" from position i on, up to the closing "]" that must
\* end the text: [ok, val]
RECURSIVE ParseItems(_, _, _)
ParseItems(toks, i, acc) ==
    LET r == ParseRecord(toks, i)
        j == i + RecordLen
    IN  IF ~r.ok \/ j > Len(toks) THEN [ok |-> FALSE, val |-> <<>>]
        ELSE IF toks[j] = P("]")
             THEN [ok |-> j = Len(toks), val |-> Append(acc, r.val)]
        ELSE IF toks[j] = P(",")
             THEN ParseItems(toks, j + 1, Append(acc, r.val))
        ELSE [ok |-> FALSE, val |-> <<>>]

JsonLoad(toks) ==
    IF Len(toks) < 2 \/ toks[1] # P("[") THEN [ok |-> FALSE, val |-> <<>>]
    ELSE IF toks[2] = P("]") THEN [ok |-> Len(toks) = 2, val |-> <<>>]
    ELSE LET r == ParseItems(toks, 2, <<>>)
         IN  IF r.ok THEN r ELSE [ok |-> FALSE, val |-> <<>>]

----------------------------------------------------------------------------
(* Configuration: FlareProx.__init__                                       *)

NoConfigArg == "None"
DefaultConfigs == <<"flareprox.json", "cloudproxy.json", "~/.flareprox.json">>
ConfigPaths == {"custom.json"} \cup Range(DefaultConfigs)

\* what a config file holds: no file; text json.load rejects; a JSON object
\* without "cloudflare"; a "cloudflare" that is no object ("malformed"); or a
\* "cloudflare" object with the keys named
FileKinds ==
    {"absent", "invalid", "nosection", "malformed", "empty", "token", "both"}

FileSection(kind) ==
    CASE kind = "empty" -> {}
      [] kind = "token" -> {"api_token"}
      [] kind = "both" -> {"api_token", "account_id"}
      [] OTHER -> {}

\* _load_config_file: c.config is the "cloudflare" section so far (its keys);
\* dict.update of a value that is no mapping raises, and only
\* JSONDecodeError and IOError are caught
LoadConfigFile(kind, c) ==
    IF c.raised \/ kind \in {"invalid", "nosection"} \/ c.config # {} THEN c
    ELSE IF kind = "malformed" THEN [raised |-> TRUE, config |-> {}]
    ELSE [raised |-> FALSE, config |-> c.config \cup FileSection(kind)]

\* the loop over default_configs: the first file that exists is loaded
RECURSIVE LoadDefaults(_, _, _)
LoadDefaults(files, i, c) ==
    IF i > Len(DefaultConfigs) THEN c
    ELSE IF files[DefaultConfigs[i]] # "absent"
         THEN LoadConfigFile(files[DefaultConfigs[i]], c)
    ELSE LoadDefaults(files, i + 1, c)

\* _load_config
LoadConfig(files, config_file) ==
    LET empty == [raised |-> FALSE, config |-> {}]
        c == IF config_file # NoConfigArg /\ files[config_file] # "absent"
             THEN LoadConfigFile(files[config_file], empty)
             ELSE empty
    IN  LoadDefaults(files, 1, c)

SetupCloudflare(config) ==
    IF "api_token" \in config /\ "account_id" \in config THEN "Manager"
    ELSE "None"

\* a faulty variant: configured whether or not there is a manager
is_configured_Always(cf) == TRUE

is_configured(cf) == cf # "None"

\* FlareProx(config_file): [raised, cloudflare]
Construct(files, config_file) ==
    LET c == LoadConfig(files, config_file)
    IN  [raised |-> c.raised,
         cloudflare |-> IF c.raised THEN "None" ELSE SetupCloudflare(c.config)]

----------------------------------------------------------------------------
(* CloudflareManager                                                       *)

Script(id) == [id |-> id, created_on |-> <<"2024-01-01T00:00:00Z">>]

Ids(scr) == [i \in 1..Len(scr) |-> scr[i].id]

\* worker_subdomain: memo <<>> is None
WorkerSubdomain(memo, subOutcome) ==
    IF memo # <<>> THEN [sub |-> memo, memo |-> memo, net |-> <<>>]
    ELSE IF subOutcome = "ok"
         THEN [sub |-> ConfiguredSubdomain, memo |-> ConfiguredSubdomain,
               net |-> <<"GET subdomain">>]
    ELSE [sub |-> AccountIdLower, memo |-> AccountIdLower,
          net |-> <<"GET subdomain">>]

\* a faulty variant: the prefix tested without its dash
IsFlareProxName_NoDash(name) == StartsWith(name, SubSeq(PREFIX, 1, Len(PREFIX) - 1))

IsFlareProxName(name) == StartsWith(name, PREFIX)

RECURSIVE ListLoop(_, _, _, _, _, _)
ListLoop(result, i, memo, subOutcome, workers, net) ==
    IF i > Len(result) THEN [workers |-> workers, memo |-> memo, net |-> net]
    ELSE LET name == result[i].id
             ws == WorkerSubdomain(memo, subOutcome)
         IN  IF IsFlareProxName(name)
             THEN ListLoop(result, i + 1, ws.memo, subOutcome,
                           Append(workers,
                                  [name |-> name,
                                   url |-> WorkerUrl(name, ws.sub),
                                   created_at |-> result[i].created_on]),
                           net \o ws.net)
             ELSE ListLoop(result, i + 1, memo, subOutcome, workers, net)

ListDeployments(scr, memo, listOutcome, subOutcome) ==
    IF listOutcome # "ok"
    THEN [raised |-> "FlareProxError", workers |-> <<>>, memo |-> memo,
          net |-> <<"GET scripts">>]
    ELSE LET r == ListLoop(scr, 1, memo, subOutcome, <<>>, <<"GET scripts">>)
         IN  [raised |-> "none", workers |-> r.workers, memo |-> r.memo,
              net |-> r.net]

\* the provider stores the script under its name (PUT replaces a script of
\* the same name)
PutScript(scr, name) ==
    IF \E i \in 1..Len(scr) : scr[i].id = name THEN scr
    ELSE Append(scr, Script(name))

DropScript(scr, name) == SelectSeq(scr, LAMBDA sc : sc.id # name)

NoEndpoint == [name |-> <<>>, url |-> <<>>, created_at |-> <<>>]

\* create_deployment with the generated name and the upload's outcome; the
\* subdomain-enable POST is sent and its outcome never looked at
CreateDeployment(scr, memo, name, putOutcome, subOutcome) ==
    IF putOutcome # "ok"
    THEN [raised |-> "FlareProxError", endpoint |-> NoEndpoint, scripts |-> scr,
          memo |-> memo, net |-> <<"PUT script">>]
    ELSE LET ws == WorkerSubdomain(memo, subOutcome)
         IN  [raised |-> "none",
              endpoint |-> [name |-> name, url |-> WorkerUrl(name, ws.sub),
                            created_at |-> <<"now">>],
              scripts |-> PutScript(scr, name),
              memo |-> ws.memo,
              net |-> <<"PUT script", "POST subdomain">> \o ws.net]

DeleteStatuses == {"200", "404", "500", "exc"}

\* a faulty variant: only 200 counts as deleted
IsDeletedStatus_Only200(status) == status = "200"

\* the statuses cleanup_all reports as deleted
IsDeletedStatus(status) == status \in {"200", "404"}

DeleteMessage(status) ==
    IF status = "exc" THEN "Error deleting worker"
    ELSE IF IsDeletedStatus(status) THEN "Deleted worker"
    ELSE "Could not delete worker"

\* a faulty variant: the first delete that fails ends the loop
RECURSIVE DeleteLoop_StopsOnError(_, _, _, _, _)
DeleteLoop_StopsOnError(workers, i, statuses, scr, deletions) ==
    IF i > Len(workers) THEN [scripts |-> scr, deletions |-> deletions]
    ELSE LET st == statuses[i]
             done == Append(deletions,
                            [name |-> workers[i].name, status |-> st,
                             message |-> DeleteMessage(st)])
         IN  IF st \in {"200", "404"}
             THEN DeleteLoop_StopsOnError(workers, i + 1, statuses,
                                          DropScript(scr, workers[i].name), done)
             ELSE [scripts |-> scr, deletions |-> done]

\* "for worker in workers" of CloudflareManager.cleanup_all, from the i-th
\* worker on; the script is gone after a 200 (deleted now) and after a 404
\* (it was gone already)
RECURSIVE DeleteLoop(_, _, _, _, _)
DeleteLoop(workers, i, statuses, scr, deletions) ==
    IF i > Len(workers) THEN [scripts |-> scr, deletions |-> deletions]
    ELSE LET st == statuses[i]
         IN  DeleteLoop(workers, i + 1, statuses,
                        IF st \in {"200", "404"}
                        THEN DropScript(scr, workers[i].name) ELSE scr,
                        Append(deletions,
                               [name |-> workers[i].name, status |-> st,
                                message |-> DeleteMessage(st)]))

\* CloudflareManager.cleanup_all
ManagerCleanupAll(scr, memo, listOutcome, subOutcome, statuses) ==
    LET ld == ListDeployments(scr, memo, listOutcome, subOutcome)
    IN  IF ld.raised # "none"
        THEN [raised |-> ld.raised, scripts |-> scr, memo |-> ld.memo,
              net |-> ld.net, deletions |-> <<>>, workers |-> <<>>]
        ELSE LET d == DeleteLoop(ld.workers, 1, statuses, scr, <<>>)
             IN  [raised |-> "none", scripts |-> d.scripts, memo |-> ld.memo,
                  net |-> ld.net \o [i \in 1..Len(d.deletions) |-> "DELETE script"],
                  deletions |-> d.deletions, workers |-> ld.workers]

----------------------------------------------------------------------------
(* FlareProx: the endpoint cache                                           *)

NoFile == [exists |-> FALSE, data |-> <<>>]

\* how a write of the cache can end; "partial" is drawn only by a direct
\* _save_endpoints call
SaveOutcomes == {"ok", "openfail", "truncated"}
DirectSaveOutcomes == SaveOutcomes \cup {"partial"}

\* a faulty variant: the file opened for appending
SaveEndpoints_Append(file, endpoints, outcome) ==
    [file |-> [exists |-> TRUE, data |-> file.data \o JsonDump(endpoints)],
     warned |-> FALSE]

\* _save_endpoints.  open() can fail (the file stays as it was); a write
\* that fails after open() truncated the file leaves a prefix of the text:
\* nothing of it, or all but its end.  IOError is caught and a warning
\* printed.
SaveEndpoints(file, endpoints, outcome) ==
    LET text == JsonDump(endpoints)
    IN  CASE outcome = "ok" -> [file |-> [exists |-> TRUE, data |-> text],
                                warned |-> FALSE]
          [] outcome = "openfail" -> [file |-> file, warned |-> TRUE]
          [] outcome = "truncated" -> [file |-> [exists |-> TRUE, data |-> <<>>],
                                       warned |-> TRUE]
          [] OTHER -> [file |-> [exists |-> TRUE,
                                 data |-> SubSeq(text, 1, Len(text) - 1)],
                       warned |-> TRUE]

ReadOutcomes == {"ok", "ioerror"}

\* _load_endpoints
LoadEndpoints(file, readOutcome) ==
    IF file.exists /\ readOutcome = "ok" /\ JsonLoad(file.data).ok
    THEN JsonLoad(file.data).val
    ELSE <<>>

\* a faulty variant: the cache is overwritten after a failed listing too
SyncEndpoints_SaveOnError(cf, memo, scr, file, listOutcome, subOutcome, saveOutcome, readOutcome) ==
    LET ld == ListDeployments(scr, memo, listOutcome, subOutcome)
        sv == SaveEndpoints(file, ld.workers, saveOutcome)
    IN  [result |-> ld.workers, file |-> sv.file, memo |-> ld.memo,
         net |-> ld.net, listed |-> ld.workers,
         listOutcome |-> IF ld.raised = "none" THEN "ok" ELSE "fail",
         saveOutcome |-> saveOutcome, readOutcome |-> "none",
         printed |-> {}]

\* sync_endpoints
SyncEndpoints(cf, memo, scr, file, listOutcome, subOutcome, saveOutcome, readOutcome) ==
    IF cf = "None"
    THEN [result |-> <<>>, file |-> file, memo |-> memo, net |-> <<>>,
          listed |-> <<>>, listOutcome |-> "none", saveOutcome |-> "none",
          readOutcome |-> "none", printed |-> {}]
    ELSE LET ld == ListDeployments(scr, memo, listOutcome, subOutcome)
             sv == SaveEndpoints(file, ld.workers, saveOutcome)
         IN  IF ld.raised = "none"
             THEN [result |-> ld.workers, file |-> sv.file, memo |-> ld.memo,
                   net |-> ld.net, listed |-> ld.workers, listOutcome |-> "ok",
                   saveOutcome |-> saveOutcome, readOutcome |-> "none",
                   printed |-> IF sv.warned THEN {"Warning: Could not save endpoints"}
                               ELSE {}]
             ELSE [result |-> LoadEndpoints(file, readOutcome), file |-> file,
                   memo |-> ld.memo, net |-> ld.net, listed |-> <<>>,
                   listOutcome |-> "fail", saveOutcome |-> "none",
                   readOutcome |-> IF file.exists THEN readOutcome ELSE "none",
                   printed |-> {"Warning: Could not sync endpoints"}]

----------------------------------------------------------------------------
(* FlareProx: create_proxies, test_proxies, cleanup_all                    *)

PutOutcomes == {"ok", "fail"}

\* a faulty variant: the loop stops at the first failed creation
RECURSIVE CreateLoop_StopOnFailure(_, _, _, _, _, _, _, _, _, _)
CreateLoop_StopOnFailure(i, count, names, puts, subOutcome, scr, memo, created, failed, net) ==
    IF i >= count
    THEN [scripts |-> scr, memo |-> memo, created |-> created, failed |-> failed,
          net |-> net]
    ELSE LET cd == CreateDeployment(scr, memo, names[i + 1], puts[i + 1], subOutcome)
         IN  IF cd.raised = "none"
             THEN CreateLoop_StopOnFailure(i + 1, count, names, puts, subOutcome,
                                           cd.scripts, cd.memo,
                                           Append(created, cd.endpoint), failed,
                                           net \o cd.net)
             ELSE [scripts |-> cd.scripts, memo |-> cd.memo, created |-> created,
                   failed |-> failed + 1, net |-> net \o cd.net]

\* the loop "for i in range(count)" of create_proxies, from i on
RECURSIVE CreateLoop(_, _, _, _, _, _, _, _, _, _)
CreateLoop(i, count, names, puts, subOutcome, scr, memo, created, failed, net) ==
    IF i >= count
    THEN [scripts |-> scr, memo |-> memo, created |-> created, failed |-> failed,
          net |-> net]
    ELSE LET cd == CreateDeployment(scr, memo, names[i + 1], puts[i + 1], subOutcome)
         IN  IF cd.raised = "none"
             THEN CreateLoop(i + 1, count, names, puts, subOutcome, cd.scripts,
                             cd.memo, Append(created, cd.endpoint), failed,
                             net \o cd.net)
             ELSE CreateLoop(i + 1, count, names, puts, subOutcome, cd.scripts,
                             cd.memo, created, failed + 1, net \o cd.net)

\* the endpoint tests' request outcomes: an HTTP status, a
\* requests.RequestException ("exc"), any other exception ("err")
TestOutcomes == {"200", "503", "404", "exc", "err"}

max_retries == 2

NoResult == [success |-> FALSE, status_code |-> "none", error |-> "none"]
UnknownError == [success |-> FALSE, status_code |-> "none", error |-> "Unknown error"]
ErrorResult == [success |-> FALSE, status_code |-> "none", error |-> "exception"]
StatusResult(o) == [success |-> o = "200", status_code |-> o, error |-> "none"]

\* a faulty variant: no pause before a retry
SleepsBefore_Never(attempt) == FALSE

\* the delay before a retry
SleepsBefore(attempt) == attempt > 0

\* attempts left after this one
RetriesAfter(attempt) == attempt < max_retries - 1

\* the outcome of the k-th request to an endpoint that answers oc[1], oc[2],
\* ... and then goes on answering as it last did
OutcomeAt(oc, k) == IF k <= Len(oc) THEN oc[k] ELSE oc[Len(oc)]

\* a faulty variant: any status but 200 is tried again
RECURSIVE AttemptLoop_RetriesAnyStatus(_, _, _, _, _)
AttemptLoop_RetriesAnyStatus(attempt, limit, oc, events, result) ==
    IF attempt >= limit THEN [events |-> events, result |-> result]
    ELSE LET ev == (IF SleepsBefore(attempt) THEN Append(events, "sleep 1")
                    ELSE events) \o <<"request">>
             o == OutcomeAt(oc, attempt + 1)
         IN  CASE o = "exc" ->
                    IF RetriesAfter(attempt)
                    THEN AttemptLoop_RetriesAnyStatus(attempt + 1, limit, oc, ev,
                                                      result)
                    ELSE [events |-> ev, result |-> ErrorResult]
               [] o = "err" -> [events |-> ev, result |-> ErrorResult]
               [] o = "200" -> [events |-> ev, result |-> StatusResult(o)]
               [] OTHER ->
                    AttemptLoop_RetriesAnyStatus(attempt + 1, limit, oc, ev,
                                                 StatusResult(o))

\* the body of "for attempt in range(max_retries)" from attempt on
RECURSIVE AttemptLoop(_, _, _, _, _)
AttemptLoop(attempt, limit, oc, events, result) ==
    IF attempt >= limit THEN [events |-> events, result |-> result]
    ELSE LET ev == (IF SleepsBefore(attempt) THEN Append(events, "sleep 1")
                    ELSE events) \o <<"request">>
             o == OutcomeAt(oc, attempt + 1)
         IN  CASE o = "exc" ->
                    IF RetriesAfter(attempt)
                    THEN AttemptLoop(attempt + 1, limit, oc, ev, result)
                    ELSE [events |-> ev, result |-> ErrorResult]
               [] o = "err" -> [events |-> ev, result |-> ErrorResult]
               [] o = "200" -> [events |-> ev, result |-> StatusResult(o)]
               [] o = "503" ->
                    AttemptLoop(attempt + 1, limit, oc, ev, StatusResult(o))
               [] OTHER -> [events |-> ev, result |-> StatusResult(o)]

\* one endpoint of test_proxies
TestEndpoint(oc) ==
    LET r == AttemptLoop(0, max_retries, oc, <<>>, NoResult)
    IN  [events |-> r.events,
         result |-> IF r.result = NoResult THEN UnknownError ELSE r.result]

ScalarFalse == [success |-> FALSE, status_code |-> "scalar", error |-> "none"]
ScalarMessage == [success |-> FALSE, status_code |-> "scalar",
                  error |-> "No endpoints available"]

\* the dict test_proxies returns when the cache holds no endpoint
NoEndpointsDict ==
    [k \in {<<"success">>, <<"error">>} |->
        IF k = <<"success">> THEN ScalarFalse ELSE ScalarMessage]

\* a faulty variant: only the endpoints that answered 200 get an entry
ResultsDict_SuccessesOnly(tests) ==
    [n \in { tests[i].name : i \in { k \in 1..Len(tests) : tests[k].result.success } } |->
        LET i == CHOOSE i \in 1..Len(tests) :
                    /\ tests[i].name = n
                    /\ \A j \in (i + 1)..Len(tests) : tests[j].name # n
        IN  tests[i].result]

\* results[name] = result, in the order of the endpoints
ResultsDict(tests) ==
    [n \in { tests[i].name : i \in 1..Len(tests) } |->
        LET i == CHOOSE i \in 1..Len(tests) :
                    /\ tests[i].name = n
                    /\ \A j \in (i + 1)..Len(tests) : tests[j].name # n
        IN  tests[i].result]

\* the requests the tests sent, in order
RECURSIVE RequestsOf(_, _)
RequestsOf(tests, i) ==
    IF i > Len(tests) THEN <<>>
    ELSE [k \in 1..Len(SelectSeq(tests[i].events, LAMBDA x : x = "request")) |->
             "TEST endpoint"] \o RequestsOf(tests, i + 1)

\* a faulty variant: the provider is asked for its listing before the tests
TestProxies_ListsFirst(file, readOutcome, ocs) ==
    LET endpoints == LoadEndpoints(file, readOutcome)
        tests == [i \in 1..Len(endpoints) |->
                    LET t == TestEndpoint(ocs[i])
                    IN  [name |-> endpoints[i].name, events |-> t.events,
                         result |-> t.result]]
    IN  [endpoints |-> endpoints, tests |-> tests,
         returned |-> IF Len(endpoints) = 0 THEN NoEndpointsDict
                      ELSE ResultsDict(tests),
         net |-> <<"GET scripts">> \o RequestsOf(tests, 1),
         printed |-> {"Test Results:"}]

\* test_proxies; ocs[i] is the outcomes of the requests to the i-th endpoint
TestProxies(file, readOutcome, ocs) ==
    LET endpoints == LoadEndpoints(file, readOutcome)
        tests == [i \in 1..Len(endpoints) |->
                    LET t == TestEndpoint(ocs[i])
                    IN  [name |-> endpoints[i].name, events |-> t.events,
                         result |-> t.result]]
    IN  IF Len(endpoints) = 0
        THEN [endpoints |-> endpoints, tests |-> <<>>, returned |-> NoEndpointsDict,
              net |-> <<>>,
              printed |-> {"No proxy endpoints available. Create some first."}]
        ELSE [endpoints |-> endpoints, tests |-> tests,
              returned |-> ResultsDict(tests),
              net |-> RequestsOf(tests, 1),
              printed |-> {"Test Results:"}]

RemoveOutcomes == {"ok", "oserror"}

\* a faulty variant: the manager's error ends the cleanup
CleanupAll_ListErrorPropagates(cf, memo, scr, file, listOutcome, subOutcome, statuses, removeOutcome) ==
    LET mc == ManagerCleanupAll(scr, memo, listOutcome, subOutcome, statuses)
        raises == cf = "None" \/ mc.raised # "none"
    IN  [raised |-> IF raises THEN "FlareProxError" ELSE "none",
         scripts |-> IF cf = "None" THEN scr ELSE mc.scripts,
         memo |-> IF cf = "None" THEN memo ELSE mc.memo,
         file |-> IF ~raises /\ file.exists /\ removeOutcome = "ok" THEN NoFile
                  ELSE file,
         net |-> IF cf = "None" THEN <<>> ELSE mc.net,
         deletions |-> IF cf = "None" THEN <<>> ELSE mc.deletions,
         printed |-> {},
         listOutcome |-> IF cf = "None" THEN "none"
                         ELSE IF mc.raised = "none" THEN "ok" ELSE "fail",
         removeCalled |-> ~raises /\ file.exists,
         workers |-> IF cf = "None" THEN <<>> ELSE mc.workers]

\* FlareProx.cleanup_all
CleanupAll(cf, memo, scr, file, listOutcome, subOutcome, statuses, removeOutcome) ==
    IF cf = "None"
    THEN [raised |-> "FlareProxError", scripts |-> scr, memo |-> memo,
          file |-> file, net |-> <<>>, deletions |-> <<>>, printed |-> {},
          listOutcome |-> "none", removeCalled |-> FALSE, workers |-> <<>>]
    ELSE LET mc == ManagerCleanupAll(scr, memo, listOutcome, subOutcome, statuses)
         IN  [raised |-> "none", scripts |-> mc.scripts, memo |-> mc.memo,
              file |-> IF file.exists /\ removeOutcome = "ok" THEN NoFile ELSE file,
              net |-> mc.net, deletions |-> mc.deletions,
              printed |-> IF mc.raised = "none" THEN {}
                          ELSE {"Failed to cleanup"},
              listOutcome |-> IF mc.raised = "none" THEN "ok" ELSE "fail",
              removeCalled |-> file.exists, workers |-> mc.workers]

\* create_proxies
CreateProxies(cf, memo, scr, file, count, names, puts, subOutcome, listOutcome, saveOutcome, readOutcome) ==
    IF cf = "None"
    THEN [raised |-> "FlareProxError", scripts |-> scr, memo |-> memo,
          file |-> file, net |-> <<>>, created |-> <<>>, failed |-> 0,
          printed |-> {},
          sync |-> SyncEndpoints("None", memo, scr, file, listOutcome, subOutcome,
                                 saveOutcome, readOutcome)]
    ELSE LET cl == CreateLoop(0, count, names, puts, subOutcome, scr, memo,
                              <<>>, 0, <<>>)
             sy == SyncEndpoints(cf, cl.memo, cl.scripts, file, listOutcome,
                                 subOutcome, saveOutcome, readOutcome)
         IN  [raised |-> "none", scripts |-> cl.scripts, memo |-> sy.memo,
              file |-> sy.file, net |-> cl.net \o sy.net, created |-> cl.created,
              failed |-> cl.failed,
              printed |-> sy.printed, sync |-> sy]

----------------------------------------------------------------------------
(* The deployed worker script                                              *)

\* a value that may be null
Null == [has |-> FALSE, v |-> <<>>]
Some(s) == [has |-> TRUE, v |-> s]
\* JavaScript truthiness of a string-or-null
Truthy(m) == m.has /\ m.v # <<>>

HTTP == <<"h", "t", "t", "p">>
Slash == <<"/">>

\* URLSearchParams.get(key): the first value of that key, or null
RECURSIVE SearchParamsGet(_, _)
SearchParamsGet(params, key) ==
    IF Len(params) = 0 THEN Null
    ELSE IF params[1].key = key THEN Some(params[1].value)
    ELSE SearchParamsGet(Tail(params), key)

\* a faulty variant: the header is read before the query
getTargetUrl_HeaderFirst(url, headers) ==
    LET h == headers.x_target_url
        q == IF ~Truthy(h) THEN SearchParamsGet(url.searchParams, "url") ELSE h
        pathUrl == SubSeq(url.pathname, 2, Len(url.pathname))
    IN  IF ~Truthy(q) /\ url.pathname # Slash /\ StartsWith(pathUrl, HTTP)
        THEN Some(pathUrl)
        ELSE q

getTargetUrl(url, headers) ==
    LET q == SearchParamsGet(url.searchParams, "url")
        h == IF ~Truthy(q) THEN headers.x_target_url ELSE q
        pathUrl == SubSeq(url.pathname, 2, Len(url.pathname))
    IN  IF ~Truthy(h) /\ url.pathname # Slash /\ StartsWith(pathUrl, HTTP)
        THEN Some(pathUrl)
        ELSE h

Letters == {"h", "t", "p", "s", "f", "a", "b", "c", "x"}

\* new URL(s) accepts s: it starts with a scheme and a colon
IsAbsoluteUrl(s) ==
    \E i \in 2..Len(s) : s[i] = ":" /\ \A j \in 1..(i - 1) : s[j] \in Letters

\* the query parameters handed on to the target
ForwardedParams(params) ==
    SelectSeq(params, LAMBDA kv : kv.key \notin {"url", "_cb", "_t"})

NoFetch == [sent |-> FALSE, target |-> <<>>, params |-> <<>>, method |-> "none"]

\* handleRequest; fetchOutcome is the target's status, or "throw"
handleRequest(req, fetchOutcome) ==
    LET targetUrl == getTargetUrl(req.url, req.headers)
        fetched == [sent |-> TRUE, target |-> targetUrl.v,
                    params |-> ForwardedParams(req.url.searchParams),
                    method |-> req.method]
    IN  IF ~Truthy(targetUrl)
        THEN [status |-> "400", error |-> "No target URL specified",
              body |-> "json", fetch |-> NoFetch, targetUrl |-> targetUrl]
        ELSE IF ~IsAbsoluteUrl(targetUrl.v)
        THEN [status |-> "400", error |-> "Invalid target URL", body |-> "json",
              fetch |-> NoFetch, targetUrl |-> targetUrl]
        ELSE IF fetchOutcome = "throw"
        THEN [status |-> "500", error |-> "Proxy request failed", body |-> "json",
              fetch |-> fetched, targetUrl |-> targetUrl]
        ELSE IF req.method = "OPTIONS"
        THEN [status |-> "204", error |-> "none", body |-> "null",
              fetch |-> fetched, targetUrl |-> targetUrl]
        ELSE [status |-> fetchOutcome, error |-> "none", body |-> "target",
              fetch |-> fetched, targetUrl |-> targetUrl]

UrlA == <<"h", "t", "t", "p", ":", "/", "/", "a">>
UrlB == <<"h", "t", "t", "p", "s", ":", "/", "/", "b">>
NotAUrl == <<"h", "t", "t", "p", "x">>

QueryPairs ==
    { [key |-> "url", value |-> UrlA], [key |-> "url", value |-> <<>>],
      [key |-> "q", value |-> <<"1">>], [key |-> "_cb", value |-> <<"9">>] }
Queries ==
    {<<>>} \cup { <<a>> : a \in QueryPairs }
           \cup { <<a, b>> : a \in QueryPairs, b \in QueryPairs }
HeaderValues == { Null, Some(<<>>), Some(UrlB), Some(NotAUrl) }
Pathnames ==
    { Slash, Slash \o <<"h", "t", "t", "p", ":", "/", "/", "c">>,
      Slash \o <<"f", "t", "p", ":", "/", "/", "c">>, Slash \o <<"x">> }
Methods == {"GET", "POST", "OPTIONS"}
FetchOutcomes == {"200", "404", "throw"}

Requests ==
    { [method |-> m, url |-> [searchParams |-> q, pathname |-> p],
       headers |-> [x_target_url |-> h]] :
      m \in Methods, q \in Queries, p \in Pathnames, h \in HeaderValues }

NoRequest ==
    [method |-> "none", url |-> [searchParams |-> <<>>, pathname |-> Slash],
     headers |-> [x_target_url |-> Null]]
NoResponse ==
    [status |-> "none", error |-> "none", body |-> "none", fetch |-> NoFetch,
     targetUrl |-> Null]

----------------------------------------------------------------------------
(* The record of a call                                                    *)

\* no call has returned that the caller has not taken note of
NoCall ==
    [op |-> "none", cmd |-> "none", configArg |-> NoConfigArg, count |-> 0,
     arg |-> <<>>, raised |-> "none", net |-> <<>>, printed |-> {},
     cacheBefore |-> NoFile, scriptsBefore |-> <<>>,
     listOutcome |-> "none", saveOutcome |-> "none", readOutcome |-> "none",
     listed |-> <<>>, result |-> <<>>, created |-> <<>>, failed |-> 0,
     deletions |-> <<>>, removeCalled |-> FALSE, removeOutcome |-> "none",
     tests |-> <<>>, outcomes |-> <<>>, returned |-> <<>>]

NoPrev == [op |-> "none", arg |-> <<>>, listOutcome |-> "none",
           saveOutcome |-> "none"]

\* what is remembered of a call once the next one starts
Summary(c) ==
    IF c.op \in {"sync_endpoints", "_save_endpoints"}
    THEN [op |-> c.op, arg |-> c.arg, listOutcome |-> c.listOutcome,
          saveOutcome |-> c.saveOutcome]
    ELSE [NoPrev EXCEPT !.op = "other"]

Idle == last = NoCall

ListOutcomes == {"ok", "fail"}
SubOutcomes == {"ok", "fail"}

\* the outcomes a call can meet, given what it will ask for
SubIn(memo) == IF memo = <<>> THEN SubOutcomes ELSE {"ok"}
SaveIn(lo) == IF lo = "ok" THEN SaveOutcomes ELSE {"ok"}
ReadIn(file) == IF file.exists THEN ReadOutcomes ELSE {"ok"}
RemoveIn(file) == IF file.exists THEN RemoveOutcomes ELSE {"ok"}
\* sync_endpoints reads the cache only after a failed listing
SyncReadIn(lo, file) == IF lo = "fail" THEN ReadIn(file) ELSE {"ok"}

Max(a, b) == IF a >= b THEN a ELSE b

OutcomePairs ==
    { <<a>> : a \in TestOutcomes \ {"503", "exc"} }
    \cup { <<a, b>> : a \in {"503", "exc"}, b \in TestOutcomes }

DefaultName == CHOOSE n \in GeneratedNames : TRUE

\* the result of a sync_endpoints call, as the record of a call
SyncCall(op, r) ==
    [NoCall EXCEPT !.op = op, !.net = r.net, !.printed = r.printed,
                   !.cacheBefore = cacheFile, !.scriptsBefore = scripts,
                   !.listOutcome = r.listOutcome, !.saveOutcome = r.saveOutcome,
                   !.readOutcome = r.readOutcome, !.listed = r.listed,
                   !.result = r.result]

----------------------------------------------------------------------------
(* Calls on a FlareProx instance and its CloudflareManager                 *)

Sync ==
    /\ Idle
    /\ \E lo \in ListOutcomes : \E so \in SubIn(subdomain), sv \in SaveIn(lo),
                                   ro \in SyncReadIn(lo, cacheFile) :
        LET r == SyncEndpoints(cloudflare, subdomain, scripts, cacheFile,
                               lo, so, sv, ro)
        IN  /\ subdomain' = r.memo
            /\ cacheFile' = r.file
            /\ last' = SyncCall("sync_endpoints", r)
            /\ UNCHANGED <<configFiles, cloudflare, scripts, prev, request,
                           response>>

ListProxies ==
    /\ Idle
    /\ \E lo \in ListOutcomes : \E so \in SubIn(subdomain), sv \in SaveIn(lo),
                                   ro \in SyncReadIn(lo, cacheFile) :
        LET r == SyncEndpoints(cloudflare, subdomain, scripts, cacheFile,
                               lo, so, sv, ro)
            c == SyncCall("list_proxies", r)
        IN  /\ subdomain' = r.memo
            /\ cacheFile' = r.file
            /\ last' = [c EXCEPT !.printed =
                            r.printed \cup (IF Len(r.result) = 0
                                            THEN {"No FlareProx endpoints found"}
                                            ELSE {"FlareProx Endpoints"})]
            /\ UNCHANGED <<configFiles, cloudflare, scripts, prev, request,
                           response>>

ListDeploymentsCall ==
    /\ Idle
    /\ cloudflare = "Manager"
    /\ \E lo \in ListOutcomes : \E so \in SubIn(subdomain) :
        LET r == ListDeployments(scripts, subdomain, lo, so)
        IN  /\ subdomain' = r.memo
            /\ last' = [NoCall EXCEPT !.op = "list_deployments",
                                      !.raised = r.raised, !.net = r.net,
                                      !.cacheBefore = cacheFile,
                                      !.scriptsBefore = scripts,
                                      !.listOutcome = lo,
                                      !.listed = r.workers, !.result = r.workers]
            /\ UNCHANGED <<configFiles, cloudflare, scripts, cacheFile, prev,
                           request, response>>

\* the names and upload outcomes of count creations
CreateInputs(count) ==
    { io \in [1..Max(count, 0) -> PutOutcomes \X GeneratedNames] :
        \A i \in 1..Max(count, 0) : io[i][1] = "fail" => io[i][2] = DefaultName }

CreateProxiesCall ==
    /\ Idle
    /\ \E count \in (-1)..MaxCount : \E io \in CreateInputs(count) :
       \E lo \in ListOutcomes : \E so \in SubIn(subdomain), sv \in SaveIn(lo),
                                   ro \in SyncReadIn(lo, cacheFile) :
        LET puts == [i \in 1..Max(count, 0) |-> io[i][1]]
            names == [i \in 1..Max(count, 0) |-> io[i][2]]
            r == CreateProxies(cloudflare, subdomain, scripts, cacheFile, count,
                               names, puts, so, lo, sv, ro)
        IN  /\ Len(r.scripts) <= MaxScripts
            /\ subdomain' = r.memo
            /\ scripts' = r.scripts
            /\ cacheFile' = r.file
            /\ last' = [SyncCall("create_proxies", r.sync) EXCEPT
                            !.count = count, !.raised = r.raised, !.net = r.net,
                            !.printed = r.printed, !.created = r.created,
                            !.failed = r.failed, !.outcomes = puts]
            /\ UNCHANGED <<configFiles, cloudflare, prev, request, response>>

\* how many workers a listing with outcome lo returns
Listed(lo) ==
    IF lo = "ok" THEN Len(SelectSeq(scripts, LAMBDA sc : IsFlareProxName(sc.id)))
    ELSE 0

ManagerCleanupAllCall ==
    /\ Idle
    /\ cloudflare = "Manager"
    /\ \E lo \in ListOutcomes : \E so \in SubIn(subdomain) :
       \E statuses \in [1..Listed(lo) -> DeleteStatuses] :
        LET r == ManagerCleanupAll(scripts, subdomain, lo, so, statuses)
        IN  /\ subdomain' = r.memo
            /\ scripts' = r.scripts
            /\ last' = [NoCall EXCEPT !.op = "manager_cleanup_all",
                                      !.raised = r.raised, !.net = r.net,
                                      !.cacheBefore = cacheFile,
                                      !.scriptsBefore = scripts,
                                      !.listOutcome = lo, !.listed = r.workers,
                                      !.deletions = r.deletions,
                                      !.outcomes = statuses]
            /\ UNCHANGED <<configFiles, cloudflare, cacheFile, prev, request,
                           response>>

CleanupAllCall ==
    /\ Idle
    /\ \E lo \in ListOutcomes : \E so \in SubIn(subdomain) :
       \E statuses \in [1..Listed(lo) -> DeleteStatuses] :
       \E rm \in RemoveIn(cacheFile) :
        LET r == CleanupAll(cloudflare, subdomain, scripts, cacheFile, lo, so,
                            statuses, rm)
        IN  /\ subdomain' = r.memo
            /\ scripts' = r.scripts
            /\ cacheFile' = r.file
            /\ last' = [NoCall EXCEPT !.op = "cleanup_all",
                                      !.raised = r.raised, !.net = r.net,
                                      !.printed = r.printed,
                                      !.cacheBefore = cacheFile,
                                      !.scriptsBefore = scripts,
                                      !.listOutcome = r.listOutcome,
                                      !.listed = r.workers,
                                      !.deletions = r.deletions,
                                      !.outcomes = statuses,
                                      !.removeCalled = r.removeCalled,
                                      !.removeOutcome =
                                          IF r.removeCalled THEN rm ELSE "none"]
            /\ UNCHANGED <<configFiles, cloudflare, prev, request, response>>

TestProxiesCall ==
    /\ Idle
    /\ \E ro \in ReadIn(cacheFile) :
       \E ocs \in [1..Len(LoadEndpoints(cacheFile, ro)) -> OutcomePairs] :
        LET r == TestProxies(cacheFile, ro, ocs)
        IN  /\ last' = [NoCall EXCEPT !.op = "test_proxies", !.net = r.net,
                                      !.printed = r.printed,
                                      !.cacheBefore = cacheFile,
                                      !.scriptsBefore = scripts,
                                      !.readOutcome =
                                          IF cacheFile.exists THEN ro ELSE "none",
                                      !.result = r.endpoints,
                                      !.tests = r.tests, !.outcomes = ocs,
                                      !.returned = r.returned]
            /\ UNCHANGED <<configFiles, cloudflare, subdomain, scripts,
                           cacheFile, prev, request, response>>

\* lists of endpoint records handed to _save_endpoints
SampleEndpoints ==
    { [name |-> DefaultName, url |-> WorkerUrl(DefaultName, ConfiguredSubdomain),
       created_at |-> <<"unknown">>],
      [name |-> <<"w">>, url |-> <<"https://w.example">>,
       created_at |-> <<"2024">>] }

RECURSIVE SeqsUpTo(_, _)
SeqsUpTo(elems, n) ==
    IF n = 0 THEN {<<>>}
    ELSE LET shorter == SeqsUpTo(elems, n - 1)
         IN  shorter \cup { Append(q, x) : q \in shorter, x \in elems }

SaveEndpointsCall ==
    /\ Idle
    /\ \E endpoints \in SeqsUpTo(SampleEndpoints, MaxScripts) :
       \E sv \in DirectSaveOutcomes :
        LET r == SaveEndpoints(cacheFile, endpoints, sv)
        IN  /\ cacheFile' = r.file
            /\ last' = [NoCall EXCEPT !.op = "_save_endpoints",
                                      !.arg = endpoints,
                                      !.cacheBefore = cacheFile,
                                      !.saveOutcome = sv,
                                      !.printed =
                                          IF r.warned
                                          THEN {"Warning: Could not save endpoints"}
                                          ELSE {}]
            /\ UNCHANGED <<configFiles, cloudflare, subdomain, scripts, prev,
                           request, response>>

LoadEndpointsCall ==
    /\ Idle
    /\ \E ro \in ReadIn(cacheFile) :
        /\ last' = [NoCall EXCEPT !.op = "_load_endpoints",
                                  !.cacheBefore = cacheFile,
                                  !.readOutcome =
                                      IF cacheFile.exists THEN ro ELSE "none",
                                  !.result = LoadEndpoints(cacheFile, ro)]
        /\ UNCHANGED <<configFiles, cloudflare, subdomain, scripts, cacheFile,
                       prev, request, response>>

\* the caller has the call's result; the next call can start
Return ==
    /\ ~Idle
    /\ prev' = Summary(last)
    /\ last' = NoCall
    /\ UNCHANGED <<configFiles, cloudflare, subdomain, scripts, cacheFile,
                   request, response>>

\* the provider's account changes behind the tool's back: a script appears
\* or goes
RemoteChange ==
    /\ Idle
    /\ \/ \E id \in ScriptIds :
            /\ Len(scripts) < MaxScripts
            /\ \A i \in 1..Len(scripts) : scripts[i].id # id
            /\ scripts' = Append(scripts, Script(id))
       \/ \E i \in 1..Len(scripts) : scripts' = DropScript(scripts, scripts[i].id)
    /\ prev' = [NoPrev EXCEPT !.op = "other"]
    /\ UNCHANGED <<configFiles, cloudflare, subdomain, cacheFile, last, request,
                   response>>

NoConfigFiles == [f \in ConfigPaths |-> "absent"]

\* FlareProx(): a freshly constructed instance
Init ==
    /\ configFiles \in { [NoConfigFiles EXCEPT !["flareprox.json"] = k] :
                           k \in {"both", "token"} }
    /\ cloudflare = Construct(configFiles, NoConfigArg).cloudflare
    /\ subdomain = <<>>
    /\ scripts = <<>>
    /\ cacheFile = NoFile
    /\ last = NoCall
    /\ prev = NoPrev
    /\ request = NoRequest
    /\ response = NoResponse

Next ==
    \/ Sync
    \/ ListProxies
    \/ ListDeploymentsCall
    \/ CreateProxiesCall
    \/ ManagerCleanupAllCall
    \/ CleanupAllCall
    \/ RemoteChange
    \/ Return

Spec == Init /\ [][Next]_vars

----------------------------------------------------------------------------
(* The endpoint cache and the endpoint tests on their own                  *)

InitCache ==
    /\ configFiles = [NoConfigFiles EXCEPT !["flareprox.json"] = "both"]
    /\ cloudflare = Construct(configFiles, NoConfigArg).cloudflare
    /\ subdomain = <<>>
    /\ scripts = <<Script(DefaultName)>>
    /\ cacheFile = NoFile
    /\ last = NoCall
    /\ prev = NoPrev
    /\ request = NoRequest
    /\ response = NoResponse

NextCache ==
    \/ SaveEndpointsCall
    \/ LoadEndpointsCall
    \/ TestProxiesCall
    \/ Sync
    \/ CleanupAllCall
    \/ Return

SpecCache == InitCache /\ [][NextCache]_vars

----------------------------------------------------------------------------
(* main(): one run of the command line tool                                *)

NotConfiguredMessage ==
    "FlareProx not configured. Use 'python3 flareprox.py config' for setup."
ConfigurationErrorMessage == "Configuration error"

ConfigArgs == {NoConfigArg, "custom.json"}

\* main up to the is_configured test, for the commands that need a FlareProx:
\* the message it stops with, or "none"
StopsWith(k) ==
    IF k.raised THEN ConfigurationErrorMessage
    ELSE IF ~is_configured(k.cloudflare) THEN NotConfiguredMessage
    ELSE "none"

MainCall(cmd, arg, c) ==
    [c EXCEPT !.op = "main", !.cmd = cmd, !.configArg = arg,
              !.cacheBefore = cacheFile, !.scriptsBefore = scripts]

\* main returns before it reaches the command
MainStops(cmd, arg, k) ==
    /\ StopsWith(k) # "none"
    /\ last' = MainCall(cmd, arg,
                  [NoCall EXCEPT !.printed = {StopsWith(k)},
                                 !.raised = IF k.raised THEN "Exception"
                                            ELSE "none"])
    /\ cloudflare' = k.cloudflare
    /\ subdomain' = <<>>
    /\ UNCHANGED <<configFiles, scripts, cacheFile, prev, request, response>>

MainHelp ==
    /\ Idle
    /\ \E cmd \in {"none", "help"}, arg \in ConfigArgs :
        last' = MainCall(cmd, arg, [NoCall EXCEPT !.printed = {"help"}])
    /\ UNCHANGED <<configFiles, cloudflare, subdomain, scripts, cacheFile, prev,
                   request, response>>

\* show_config_help and setup_interactive_config: looksValid is the outcome
\* of the placeholder and length tests on an existing file's credentials
MainConfig ==
    /\ Idle
    /\ \E arg \in ConfigArgs, looksValid \in BOOLEAN, reconfigure \in BOOLEAN,
          entered \in BOOLEAN, write \in {"ok", "ioerror"} :
        LET found == /\ looksValid
                     /\ \E f \in {"flareprox.json", "~/.flareprox.json"} :
                            configFiles[f] = "both"
            asks == ~found \/ reconfigure
            saved == asks /\ entered /\ write = "ok"
        IN  /\ configFiles' = IF saved
                              THEN [configFiles EXCEPT !["flareprox.json"] = "both"]
                              ELSE configFiles
            /\ last' = MainCall("config", arg,
                          [NoCall EXCEPT !.printed =
                              IF saved THEN {"Configuration saved"}
                              ELSE IF asks THEN {"Configuration failed"}
                              ELSE {"already configured"}])
    /\ UNCHANGED <<cloudflare, subdomain, scripts, cacheFile, prev, request,
                   response>>

MainCreate ==
    /\ Idle
    /\ \E arg \in ConfigArgs :
        LET k == Construct(configFiles, arg)
        IN  \/ MainStops("create", arg, k)
            \/ /\ StopsWith(k) = "none"
               /\ \E count \in (-1)..MaxCount : \E io \in CreateInputs(count) :
                  \E lo \in ListOutcomes : \E so \in SubOutcomes, sv \in SaveIn(lo),
                                              ro \in SyncReadIn(lo, cacheFile) :
                    LET puts == [i \in 1..Max(count, 0) |-> io[i][1]]
                        names == [i \in 1..Max(count, 0) |-> io[i][2]]
                        r == CreateProxies(k.cloudflare, <<>>, scripts, cacheFile,
                                           count, names, puts, so, lo, sv, ro)
                    IN  /\ Len(r.scripts) <= MaxScripts
                        /\ cloudflare' = k.cloudflare
                        /\ subdomain' = r.memo
                        /\ scripts' = r.scripts
                        /\ cacheFile' = r.file
                        /\ last' = MainCall("create", arg,
                              [SyncCall("main", r.sync) EXCEPT
                                  !.count = count, !.net = r.net,
                                  !.printed =
                                      IF r.raised = "none" THEN r.printed
                                      ELSE {"Error: FlareProx not configured"},
                                  !.created = r.created, !.failed = r.failed,
                                  !.outcomes = puts])
                        /\ UNCHANGED <<configFiles, prev, request, response>>

MainList ==
    /\ Idle
    /\ \E arg \in ConfigArgs :
        LET k == Construct(configFiles, arg)
        IN  \/ MainStops("list", arg, k)
            \/ /\ StopsWith(k) = "none"
               /\ \E lo \in ListOutcomes : \E so \in SubOutcomes, sv \in SaveIn(lo),
                                              ro \in SyncReadIn(lo, cacheFile) :
                    LET r == SyncEndpoints(k.cloudflare, <<>>, scripts, cacheFile,
                                           lo, so, sv, ro)
                    IN  /\ cloudflare' = k.cloudflare
                        /\ subdomain' = r.memo
                        /\ cacheFile' = r.file
                        /\ last' = MainCall("list", arg,
                              [SyncCall("main", r) EXCEPT !.printed =
                                  r.printed \cup
                                  (IF Len(r.result) = 0
                                   THEN {"No FlareProx endpoints found"}
                                   ELSE {"FlareProx Endpoints"})])
                        /\ UNCHANGED <<configFiles, scripts, prev, request,
                                       response>>

MainTest ==
    /\ Idle
    /\ \E arg \in ConfigArgs :
        LET k == Construct(configFiles, arg)
        IN  \/ MainStops("test", arg, k)
            \/ /\ StopsWith(k) = "none"
               /\ \E ro \in ReadIn(cacheFile) :
                  \E ocs \in [1..Len(LoadEndpoints(cacheFile, ro)) -> OutcomePairs] :
                    LET r == TestProxies(cacheFile, ro, ocs)
                    IN  /\ cloudflare' = k.cloudflare
                        /\ subdomain' = <<>>
                        /\ last' = MainCall("test", arg,
                              [NoCall EXCEPT !.net = r.net, !.printed = r.printed,
                                             !.readOutcome =
                                                 IF cacheFile.exists THEN ro
                                                 ELSE "none",
                                             !.result = r.endpoints,
                                             !.tests = r.tests, !.outcomes = ocs,
                                             !.returned = r.returned])
                        /\ UNCHANGED <<configFiles, scripts, cacheFile, prev,
                                       request, response>>

MainCleanup ==
    /\ Idle
    /\ \E arg \in ConfigArgs :
        LET k == Construct(configFiles, arg)
        IN  \/ MainStops("cleanup", arg, k)
            \/ /\ StopsWith(k) = "none"
               /\ \E confirm \in {"y", "n"} :
                  \E lo \in ListOutcomes : \E so \in SubOutcomes :
                  \E statuses \in [1..Listed(lo) -> DeleteStatuses] :
                  \E rm \in RemoveIn(cacheFile) :
                    LET r == CleanupAll(k.cloudflare, <<>>, scripts, cacheFile,
                                        lo, so, statuses, rm)
                    IN  /\ cloudflare' = k.cloudflare
                        /\ IF confirm = "y"
                           THEN /\ subdomain' = r.memo
                                /\ scripts' = r.scripts
                                /\ cacheFile' = r.file
                                /\ last' = MainCall("cleanup", arg,
                                      [NoCall EXCEPT
                                          !.net = r.net,
                                          !.printed =
                                              IF r.raised = "none" THEN r.printed
                                              ELSE {"Error: FlareProx not configured"},
                                          !.listOutcome = r.listOutcome,
                                          !.listed = r.workers,
                                          !.deletions = r.deletions,
                                          !.outcomes = statuses,
                                          !.removeCalled = r.removeCalled,
                                          !.removeOutcome =
                                              IF r.removeCalled THEN rm
                                              ELSE "none"])
                           ELSE /\ subdomain' = <<>>
                                /\ last' = MainCall("cleanup", arg,
                                      [NoCall EXCEPT
                                          !.printed = {"Cleanup cancelled."}])
                                /\ UNCHANGED <<scripts, cacheFile>>
                        /\ UNCHANGED <<configFiles, prev, request, response>>

\* the files and the account a run of the tool can find
InitMain ==
    /\ configFiles \in { f \in [ConfigPaths -> FileKinds] :
                           /\ f["cloudproxy.json"] \in {"absent", "both"}
                           /\ f["~/.flareprox.json"] \in {"absent", "token", "both"} }
    /\ cloudflare = "None"
    /\ subdomain = <<>>
    /\ scripts = <<Script(DefaultName), Script(CHOOSE id \in ForeignIds : TRUE)>>
    /\ cacheFile \in { NoFile,
                       SaveEndpoints(NoFile,
                                     <<CHOOSE e \in SampleEndpoints : TRUE>>,
                                     "ok").file }
    /\ last = NoCall
    /\ prev = NoPrev
    /\ request = NoRequest
    /\ response = NoResponse

NextMain ==
    \/ MainHelp
    \/ MainConfig
    \/ MainCreate
    \/ MainList
    \/ MainTest
    \/ MainCleanup

SpecMain == InitMain /\ [][NextMain]_vars

----------------------------------------------------------------------------
(* The worker script answering one request                                 *)

HandleRequest ==
    /\ request = NoRequest
    /\ \E req \in Requests, fo \in FetchOutcomes :
        /\ request' = req
        /\ response' = handleRequest(req, fo)
    /\ UNCHANGED <<configFiles, cloudflare, subdomain, scripts, cacheFile, last,
                   prev>>

SpecWorker == Init /\ [][HandleRequest]_vars

----------------------------------------------------------------------------
(* Properties                                                              *)

Count(seq, x) == Cardinality({ i \in 1..Len(seq) : seq[i] = x })
Names(endpoints) == [i \in 1..Len(endpoints) |-> endpoints[i].name]
HasPrefix(id) ==
    Len(id) >= Len(PREFIX) /\ SubSeq(id, 1, Len(PREFIX)) = PREFIX

\* C1: create_proxies(count) with count >= 0 on a configured instance calls
\* create_deployment exactly count times, whatever creations fail, and the
\* result it returns has len(created) + failed = count.
C1_CreateTally ==
    (last.op = "create_proxies" /\ cloudflare = "Manager" /\ last.count >= 0) =>
        /\ last.raised = "none"
        /\ Count(last.net, "PUT script") = last.count
        /\ Len(last.created) + last.failed = last.count
        /\ last.failed = Count(last.outcomes, "fail")

\* a failed creation followed by a successful one
C1_Witness ==
    /\ last.op = "create_proxies"
    /\ last.count = 2
    /\ last.outcomes = <<"fail", "ok">>
    /\ Len(last.created) = 1
    /\ last.failed = 1

SleepThenRetry == <<"request", "sleep 1", "request">>

\* C2: in test_proxies an endpoint answering 503 and then 200 is sent
\* exactly 2 requests with a sleep of 1 second between them and its result
\* has success = true; an endpoint answering 503 every time is sent exactly
\* 2 requests and its result has success = false.
C2_RetryOn503 ==
    last.op = "test_proxies" =>
        \A i \in 1..Len(last.tests) :
            /\ last.outcomes[i] = <<"503", "200">> =>
                   /\ last.tests[i].events = SleepThenRetry
                   /\ last.tests[i].result.success
            /\ last.outcomes[i] = <<"503", "503">> =>
                   /\ last.tests[i].events = SleepThenRetry
                   /\ ~last.tests[i].result.success

\* one call testing an endpoint of each kind
C2_Witness ==
    /\ last.op = "test_proxies"
    /\ Len(last.tests) = 2
    /\ last.outcomes = << <<"503", "200">>, <<"503", "503">> >>
    /\ last.tests[1].result.success
    /\ ~last.tests[2].result.success
    /\ Len(last.net) = 4

\* what _load_endpoints gives for a file
Readable(file) == file.exists /\ JsonLoad(file.data).ok
Contents(file) == IF Readable(file) THEN JsonLoad(file.data).val ELSE <<>>

SyncReturned ==
    last.op = "sync_endpoints" /\ cloudflare = "Manager"

\* what sync_endpoints does when the listing raises a provider error
SyncFallsBack ==
    (SyncReturned /\ last.listOutcome = "fail") =>
        /\ cacheFile = last.cacheBefore
        /\ last.result = IF last.readOutcome = "ok" THEN Contents(last.cacheBefore)
                         ELSE <<>>

\* the records a successful listing returns: the prefixed scripts, in order
SyncReturnsListing ==
    (SyncReturned /\ last.listOutcome = "ok") =>
        /\ last.result = last.listed
        /\ Names(last.result) = SelectSeq(Ids(last.scriptsBefore), HasPrefix)

\* C3 as stated: after a successful listing the cache file holds exactly the
\* listed records, which are returned; after a failed one the file is
\* unchanged and the cache contents are returned.
C3_Original ==
    /\ SyncFallsBack
    /\ SyncReturnsListing
    /\ (SyncReturned /\ last.listOutcome = "ok") =>
           /\ Readable(cacheFile)
           /\ Contents(cacheFile) = last.listed

\* C3: sync_endpoints on a configured instance returns the listed records
\* after a successful listing and overwrites the cache file with exactly
\* them if the write succeeds; a write that fails is only warned about, and
\* leaves the file as it was (open failed) or unreadable; after a failed
\* listing the file is unchanged and the cache contents (the empty list if
\* the file is absent or unreadable) are returned.
C3_SyncOverwritesOrFallsBack ==
    /\ SyncFallsBack
    /\ SyncReturnsListing
    /\ (SyncReturned /\ last.listOutcome = "ok") =>
           /\ last.saveOutcome = "ok" =>
                  Readable(cacheFile) /\ Contents(cacheFile) = last.listed
           /\ last.saveOutcome = "openfail" => cacheFile = last.cacheBefore
           /\ last.saveOutcome = "truncated" =>
                  cacheFile.exists /\ ~Readable(cacheFile)
           /\ last.saveOutcome # "ok" =>
                  "Warning: Could not save endpoints" \in last.printed

\* a listing of a mixed account replaced a stale cache
C3_Witness ==
    /\ SyncReturned
    /\ last.listOutcome = "ok"
    /\ last.saveOutcome = "ok"
    /\ Len(last.scriptsBefore) = 2
    /\ Len(last.listed) = 1
    /\ Readable(last.cacheBefore)
    /\ Contents(last.cacheBefore) # last.listed
    /\ Contents(cacheFile) = last.listed

TwoSyncs == last.op = "sync_endpoints" /\ prev.op = "sync_endpoints"

C5_ListFiltersByPrefix ==
    (last.op = "list_deployments" /\ last.raised = "none") =>
        /\ \A i \in 1..Len(last.listed) : HasPrefix(last.listed[i].name)
        /\ \A j \in 1..Len(last.scriptsBefore) :
               HasPrefix(last.scriptsBefore[j].id) =>
                   \E i \in 1..Len(last.listed) :
                       last.listed[i].name = last.scriptsBefore[j].id
        /\ Names(last.listed) = SelectSeq(Ids(last.scriptsBefore), HasPrefix)

\* a listing that mixes a prefixed and an unprefixed identifier
C5_Witness ==
    /\ last.op = "list_deployments"
    /\ last.raised = "none"
    /\ Len(last.scriptsBefore) = 2
    /\ Len(last.listed) = 1
    /\ \E j \in 1..2 : StartsWith(PREFIX, last.scriptsBefore[j].id)

\* C6: in CloudflareManager.cleanup_all a delete answered 404 is handled as
\* one answered 200: the worker is reported deleted, and nothing is raised.
C6_NotFoundCountsAsDeleted ==
    last.op = "manager_cleanup_all" =>
        \A i \in 1..Len(last.deletions) :
            last.deletions[i].status \in {"200", "404"} =>
                /\ last.deletions[i].message = "Deleted worker"
                /\ last.raised = "none"

\* a worker's delete answered 404
C6_Witness ==
    /\ last.op = "manager_cleanup_all"
    /\ \E i \in 1..Len(last.deletions) :
           /\ last.deletions[i].status = "404"
           /\ last.deletions[i].message = "Deleted worker"
           /\ \A j \in 1..Len(scripts) : scripts[j].id # last.deletions[i].name

NeedsFlareProx == {"create", "list", "test", "cleanup"}

\* the config files a run with this --config consults
Consulted(arg) ==
    Range(DefaultConfigs) \cup (IF arg = NoConfigArg THEN {} ELSE {arg})

\* C7: a run of create, list, test or cleanup for which no config file
\* supplies both api_token and account_id has no provider manager, and a run
\* whose FlareProx is not configured prints the "not configured" message,
\* sends no request and leaves the endpoint cache file as it was.
C7_NotConfiguredStops ==
    (last.op = "main" /\ last.cmd \in NeedsFlareProx) =>
        /\ (\A f \in Consulted(last.configArg) : configFiles[f] # "both") =>
               cloudflare = "None"
        /\ (last.raised = "none" /\ cloudflare = "None") =>
               /\ last.printed = {NotConfiguredMessage}
               /\ last.net = <<>>
               /\ cacheFile = last.cacheBefore
               /\ scripts = last.scriptsBefore

\* test run with endpoints in the cache and no credentials anywhere
C7_Witness ==
    /\ last.op = "main"
    /\ last.cmd = "test"
    /\ \A f \in ConfigPaths : configFiles[f] \in {"absent", "token"}
    /\ configFiles["flareprox.json"] = "token"
    /\ Len(Contents(cacheFile)) = 1
    /\ last.printed = {NotConfiguredMessage}
    /\ last.net = <<>>

\* the value of the first "url" query parameter, or null
UrlParam(req) ==
    LET params == req.url.searchParams
        at == { i \in 1..Len(params) : params[i].key = "url" }
    IN  IF at = {} THEN Null
        ELSE Some(params[CHOOSE i \in at : \A j \in at : i <= j].value)

PathUrl(req) == SubSeq(req.url.pathname, 2, Len(req.url.pathname))
PathIsUrl(req) ==
    /\ req.url.pathname # Slash
    /\ Len(PathUrl(req)) >= Len(HTTP)
    /\ SubSeq(PathUrl(req), 1, Len(HTTP)) = HTTP

\* C8: getTargetUrl takes a non-empty "url" query parameter; only without
\* one the X-Target-URL header; only without both a path that starts with
\* "http"; and the request is forwarded to the target so found.
C8_TargetPriority ==
    request # NoRequest =>
        LET q == UrlParam(request)
            h == request.headers.x_target_url
            t == response.targetUrl
        IN  /\ Truthy(q) => t = q
            /\ (~Truthy(q) /\ Truthy(h)) => t = h
            /\ (~Truthy(q) /\ ~Truthy(h) /\ PathIsUrl(request)) =>
                   t = Some(PathUrl(request))
            /\ (~Truthy(q) /\ ~Truthy(h) /\ ~PathIsUrl(request)) =>
                   ~Truthy(t) /\ response.status = "400"
            /\ response.fetch.sent => response.fetch.target = t.v

\* url=A in the query, B in the header, a URL in the path: forwarded to A
C8_Witness ==
    /\ UrlParam(request) = Some(UrlA)
    /\ request.headers.x_target_url = Some(UrlB)
    /\ PathIsUrl(request)
    /\ response.fetch.sent
    /\ response.fetch.target = UrlA

SaveThenLoad == last.op = "_load_endpoints" /\ prev.op = "_save_endpoints"

SameNameAndUrl(a, b) ==
    /\ Len(a) = Len(b)
    /\ \A i \in 1..Len(a) : a[i].name = b[i].name /\ a[i].url = b[i].url

C10_CleanupRemovesCache ==
    (last.op = "cleanup_all" /\ cloudflare = "Manager") =>
        /\ last.raised = "none"
        /\ last.removeCalled = last.cacheBefore.exists
        /\ last.removeOutcome # "oserror" => ~cacheFile.exists
        /\ last.removeOutcome = "oserror" => cacheFile = last.cacheBefore

\* the listing failed and the cache file was removed all the same
C10_Witness ==
    /\ last.op = "cleanup_all"
    /\ cloudflare = "Manager"
    /\ last.listOutcome = "fail"
    /\ last.cacheBefore.exists
    /\ last.removeCalled
    /\ ~cacheFile.exists

\* C11: test_proxies tests exactly the endpoints the cache file holds when
\* it is called: it sends no request to the provider (no listing), only
\* test requests, and whatever the tests' outcomes the cache file is left as
\* it was.
C11_TestReadsCacheOnly ==
    last.op = "test_proxies" =>
        /\ cacheFile = last.cacheBefore
        /\ scripts = last.scriptsBefore
        /\ \A i \in 1..Len(last.net) : last.net[i] = "TEST endpoint"
        /\ Len(last.net) >= Len(last.tests)
        /\ Names(last.tests) =
               Names(IF last.readOutcome = "ioerror" THEN <<>>
                     ELSE Contents(last.cacheBefore))

\* a cache that differs from the account: both its endpoints are tested,
\* one well and one not, and the file stays as it was
C11_Witness ==
    /\ last.op = "test_proxies"
    /\ Len(last.tests) = 2
    /\ Names(last.tests) # SelectSeq(Ids(scripts), HasPrefix)
    /\ last.tests[1].result.success
    /\ ~last.tests[2].result.success
    /\ Readable(cacheFile)
    /\ Names(Contents(cacheFile)) = Names(last.tests)
    /\ cacheFile = last.cacheBefore

\* the endpoints a test_proxies call found in the cache
Cached ==
    IF last.readOutcome = "ioerror" THEN <<>> ELSE Contents(last.cacheBefore)

DistinctNames(endpoints) ==
    \A i, j \in 1..Len(endpoints) :
        endpoints[i].name = endpoints[j].name => i = j

\* C12 as stated: whatever the cache holds, the keys of what test_proxies
\* returns are exactly the names of the cached endpoints, one entry for each,
\* and each name is mapped to its endpoint's result.
C12_Original ==
    last.op = "test_proxies" =>
        /\ DOMAIN last.returned = { Cached[i].name : i \in 1..Len(Cached) }
        /\ Cardinality(DOMAIN last.returned) = Len(Cached)
        /\ \A i \in 1..Len(Cached) :
               last.returned[Cached[i].name] = last.tests[i].result

\* C12: when the cache holds at least one endpoint, the keys of what
\* test_proxies returns are exactly the names of the cached endpoints and
\* each name is mapped to the result of the last cached endpoint of that
\* name: one entry per endpoint when the names are distinct.  When the
\* cache is empty, absent or unreadable it returns instead the two entries
\* "success" (false) and "error" ("No endpoints available"), and tests
\* nothing.
C12_ResultsByName ==
    last.op = "test_proxies" =>
        IF Len(Cached) = 0
        THEN /\ DOMAIN last.returned = {<<"success">>, <<"error">>}
             /\ last.returned[<<"success">>] = ScalarFalse
             /\ last.returned[<<"error">>] = ScalarMessage
             /\ last.net = <<>>
        ELSE /\ DOMAIN last.returned = { Cached[i].name : i \in 1..Len(Cached) }
             /\ \A i \in 1..Len(Cached) :
                    (\A j \in (i + 1)..Len(Cached) :
                         Cached[j].name # Cached[i].name) =>
                        last.returned[Cached[i].name] = last.tests[i].result
             /\ DistinctNames(Cached) =>
                    Cardinality(DOMAIN last.returned) = Len(Cached)

\* two endpoints of different names, each with its own result
C12_Witness ==
    /\ last.op = "test_proxies"
    /\ Len(Cached) = 2
    /\ DistinctNames(Cached)
    /\ Cardinality(DOMAIN last.returned) = 2
    /\ last.returned[Cached[1].name].success
    /\ ~last.returned[Cached[2].name].success

\* C13: in CloudflareManager.cleanup_all, once the listing has succeeded,
\* every listed worker is sent exactly one delete request, in the order of
\* the listing, whatever the earlier deletes answered: a status other than
\* 200 and 404, or a transport error, never ends the loop.
C13_EveryWorkerDeletedOnce ==
    (last.op = "manager_cleanup_all" /\ last.listOutcome = "ok") =>
        /\ last.raised = "none"
        /\ Names(last.listed) = SelectSeq(Ids(last.scriptsBefore), HasPrefix)
        /\ Names(last.deletions) = Names(last.listed)
        /\ Count(last.net, "DELETE script") = Len(last.listed)
        /\ \A i \in 1..Len(last.deletions) :
               last.deletions[i].status = last.outcomes[i]

\* the first worker's delete fails and the second worker is deleted
C13_Witness ==
    /\ last.op = "manager_cleanup_all"
    /\ Len(last.listed) = 2
    /\ Len(last.deletions) = 2
    /\ last.deletions[1].status \in {"500", "exc"}
    /\ last.deletions[2].status = "200"
    /\ Ids(scripts) = <<last.listed[1].name>>

\* C14 as stated: every OPTIONS request is answered 204 with no body and is
\* not forwarded to the target, whether or not there is a target URL and
\* whatever the target does.
C14_Original ==
    (request # NoRequest /\ request.method = "OPTIONS") =>
        /\ response.status = "204"
        /\ response.body = "null"
        /\ ~response.fetch.sent

\* an OPTIONS request is forwarded as OPTIONS to its target, the fetch
\* throws, and the answer is the 500 error
C14_Witness ==
    /\ request.method = "OPTIONS"
    /\ response.fetch.sent
    /\ response.fetch.method = "OPTIONS"
    /\ response.fetch.target = UrlA
    /\ response.status = "500"
    /\ response.error = "Proxy request failed"

Sent(i) == Count(last.tests[i].events, "request")

RECURSIVE SentFrom(_)
SentFrom(i) == IF i > Len(last.tests) THEN 0 ELSE Sent(i) + SentFrom(i + 1)

\* C15: test_proxies sends an endpoint 1 or 2 requests, whatever they
\* answer; the second only if the first ended in a 503 or a transport
\* exception; after a 200 or another status that is not 503 the endpoint
\* has had exactly 1 request; and every cached endpoint is tested, whatever
\* the endpoints before it answered.
C15_AtMostOneRetry ==
    last.op = "test_proxies" =>
        /\ Len(last.tests) = Len(Cached)
        /\ \A i \in 1..Len(last.tests) :
               /\ Sent(i) \in {1, 2}
               /\ Sent(i) = 2 <=> last.outcomes[i][1] \in {"503", "exc"}
               /\ last.outcomes[i][1] \in {"200", "404"} => Sent(i) = 1
               /\ Len(last.tests[i].events) <= 3
        /\ Len(last.net) = SentFrom(1)

\* a 404 ends the first endpoint's test after one request; the second
\* endpoint is tested all the same, and retried once after a transport error
C15_Witness ==
    /\ last.op = "test_proxies"
    /\ Len(last.tests) = 2
    /\ last.outcomes = << <<"404">>, <<"exc", "exc">> >>
    /\ Sent(1) = 1
    /\ Sent(2) = 2
    /\ Len(last.net) = 3
    /\ ~last.tests[2].result.success

====
